---- MODULE Spec2Model ----
(***************************************************************************)
(* coffea-workflow-engine: the content-addressed cache (Executor, Deps,    *)
(* producer registry) and the local renderer (topological order, parameter *)
(* resolution, render loop), as a state machine.                           *)
(***************************************************************************)
EXTENDS Integers, Sequences, FiniteSets, TLC

VARIABLES
    files,              \* the cache root: payload.json at each location, <<>> when absent
    dirs,               \* the directories created under the cache root
    stack,              \* the call stack of Executor.materialize frames (innermost last)
    exc,                \* the exception in flight, <<>> when none
    ret,                \* what the outermost materialize call gave its caller, <<>> when pending
    calls,              \* number of direct materialize calls made so far
    invoked,            \* history: producer invocations per artifact
    lookups,            \* history: get_producer calls per artifact
    failed,             \* history: producer invocations per artifact that ended without a payload
    event,              \* history: what the last step of the engine did
    interrupted,        \* history: artifacts whose producer was aborted by the exception in flight
    completed,          \* history: artifacts whose materialize returned during the current outermost call
    target,             \* history: the argument of the current outermost materialize call, <<>> before any
    invoked0,           \* history: `invoked` as it was when the current outermost call began
    raised,             \* history: the exception as it was first raised in the current outermost call
    violations,         \* history: <<artifact, n>> for each n-th invocation that returned without a payload
    workflow,           \* the Workflow handed to render_local: [steps, edges]
    rpc,                \* where render_local is: idle, loop, wait, done, failed
    order,              \* render_local's `order` (step indices, 0-based)
    pos,                \* position in `order` of the step of the current loop iteration (1-based)
    artifacts_by_name,  \* render_local's artifacts_by_name
    paths_by_name,      \* render_local's paths_by_name
    result,             \* <<the mapping returned by render_local>>, <<>> when none
    rerr,               \* <<the exception render_local raised>>, <<>> when none
    started,            \* history: step indices whose materialization has begun
    finished,           \* history: step indices whose materialization has returned
    step_art,           \* history: step index -> the artifact constructed for it
    step_params,        \* history: step index -> its resolved parameter mapping
    pass0,              \* history: files, dirs and invoked as they were when render_local began
    _PRODUCERS,         \* producers.py: artifact type -> the producer function registered for it
    ARTIFACT_REGISTRY,  \* artifacts.py: type name -> the class registered under it
    regs,               \* number of registrations made so far
    first_producer,     \* history: artifact type -> the first producer registered for it
    built,              \* <<the outcome of the last artifact_from_dict call>>, <<>> before any
    hashed,             \* the last hash_identity calls: what was hashed and the digest
    parked,             \* the other thread: its call stack, exception and call history
    overlapped,         \* history: the threads were switched while both were inside materialize
    before_add,         \* history: <<the workflow as it was before the last Workflow.add>>, <<>> before any
    add_err,            \* <<the exception the last Workflow.add raised>>, <<>> when none
    add_failed,         \* history: some Workflow.add has raised
    passes,             \* number of render_local passes begun again after a pass that was through
    first_result        \* history: <<what the first render_local pass returned>>, <<>> before

execVars == <<files, dirs, stack, exc, ret, calls, invoked, lookups, failed, event,
              interrupted, completed, target, invoked0, raised, violations>>

renderVars == <<workflow, rpc, order, pos, artifacts_by_name, paths_by_name, result, rerr,
                started, finished, step_art, step_params, pass0>>

regVars == <<_PRODUCERS, ARTIFACT_REGISTRY, regs, first_producer, built, hashed>>

threadVars == <<parked, overlapped>>

buildVars == <<before_add, add_err, add_failed>>

passVars == <<passes, first_result>>

vars == <<execVars, renderVars, regVars, threadVars, buildVars, passVars>>

-----------------------------------------------------------------------------
(* Bounds and input domains *)

MaxCalls == 3

Datasets == {"TTbar", "Data"}
Eras == {"2018"}
Tags == {"demo"}

cache_dir == ".cache"

-----------------------------------------------------------------------------
(* Artifacts (artifacts.py) *)

Fileset(dataset, era) == [cls |-> "Fileset", dataset |-> dataset, era |-> era]

MergedResult(fileset, tag) == [cls |-> "MergedResult", fileset |-> fileset, tag |-> tag]

Plots(fileset, tag) == [cls |-> "Plots", fileset |-> fileset, tag |-> tag]

Filesets == {Fileset(d, e) : d \in Datasets, e \in Eras}

Universe ==
    Filesets
    \cup {MergedResult(f, t) : f \in Filesets, t \in Tags}
    \cup {Plots(f, t) : f \in Filesets, t \in Tags}

type_name(art) == art.cls

\* keys(): the key mapping; a nested fileset contributes its own keys()
keys(art) ==
    IF art.cls = "Fileset"
    THEN [dataset |-> art.dataset, era |-> art.era]
    ELSE [fileset |-> [dataset |-> art.fileset.dataset, era |-> art.fileset.era],
          tag |-> art.tag]

to_dict(art) == [type |-> type_name(art), keys |-> keys(art)]

-----------------------------------------------------------------------------
(* Identity (identity.py) *)

\* JSON values: a string, or a dict as the sequence of its <<key, value>> items
\* in the order in which they were inserted
JStr(s) == [kind |-> "str", v |-> s]
JDict(items) == [kind |-> "dict", v |-> items]

\* keys() as the dict literal lists it
keys_items(art) ==
    IF art.cls = "Fileset"
    THEN << <<"dataset", JStr(art.dataset)>>, <<"era", JStr(art.era)>> >>
    ELSE << <<"fileset", JDict(<< <<"dataset", JStr(art.fileset.dataset)>>,
                                  <<"era", JStr(art.fileset.era)>> >>)>>,
            <<"tag", JStr(art.tag)>> >>

\* to_dict() as the dict literal lists it
to_dict_items(art) ==
    JDict(<< <<"type", JStr(type_name(art))>>, <<"keys", JDict(keys_items(art))>> >>)

\* the place of a key among the keys in use, in the order of str comparison
KeyRank(k) ==
    CASE k = "dataset" -> 1 [] k = "era" -> 2 [] k = "fileset" -> 3
      [] k = "keys" -> 4 [] k = "tag" -> 5 [] k = "type" -> 6

\* items with item x put in, before the first item whose key is greater
RECURSIVE Insert(_, _)
Insert(items, x) ==
    IF items = <<>> THEN <<x>>
    ELSE IF KeyRank(x[1]) < KeyRank(Head(items)[1]) THEN <<x>> \o items
    ELSE <<Head(items)>> \o Insert(Tail(items), x)

\* json.dumps without sort_keys: the items in insertion order
Unsorted(items) == items

\* sort_keys=True
RECURSIVE Sorted(_)
Sorted(items) ==
    IF items = <<>> THEN <<>>
    ELSE Insert(Sorted(SubSeq(items, 1, Len(items) - 1)), items[Len(items)])

\* canonicalize: the JSON text, as the value it spells
RECURSIVE canonicalize(_)
canonicalize(obj) ==
    IF obj.kind = "str" THEN obj
    ELSE LET items == Sorted(obj.v)
         IN JDict([i \in 1..Len(items) |-> <<items[i][1], canonicalize(items[i][2])>>])

\* hash_identity(p): the digest is taken as collision-free, so it is
\* represented by the bytes that are hashed
hash_identity(p) == <<canonicalize(p), "|">>

\* Artifact.identity() = hash_identity(self.to_dict()), for each artifact in use
identities == [a \in Universe |-> hash_identity(to_dict_items(a))]

identity(art) == identities[art]

-----------------------------------------------------------------------------
(* Producer registry (producers.py, default_producers.py) *)

Types == {"Fileset", "MergedResult", "Plots"}

\* _PRODUCERS after default_producers has been imported
DEFAULT_PRODUCERS == [t \in Types |->
                         CASE t = "Fileset" -> "make_fileset"
                           [] t = "MergedResult" -> "make_merged_result"
                           [] t = "Plots" -> "make_plots"]

\* a producer function of the caller's own, which needs nothing
custom_producer == "custom_producer"

\* a producer of the caller's own for Fileset, which calls
\* deps.need(MergedResult(fileset=target, tag="demo")) before it writes
cyclic_producer == "cyclic_producer"

\* t in _PRODUCERS (get_producer, lines 20-23)
HasProducer(t) == t \in DOMAIN _PRODUCERS

\* the deps.need calls the body of producer fn makes for art, in order, before it writes
NeedsOf(fn, art) ==
    CASE fn = "make_fileset" -> <<>>
      [] fn = "make_merged_result" -> <<art.fileset>>
      [] fn = "make_plots" -> <<MergedResult(art.fileset, art.tag)>>
      [] fn = "cyclic_producer" -> <<MergedResult(art, "demo")>>
      [] OTHER -> <<>>

\* the need calls of the producer that get_producer(type(art)) returns
Needs(art) == NeedsOf(_PRODUCERS[type_name(art)], art)

\* how a producer body can end, as the executor sees it
Outcomes == {"write", "nowrite", "raise"}

-----------------------------------------------------------------------------
(* Executor (executor.py) *)

\* a location that leaves the identity out
path_for_type_only(art) == <<cache_dir, type_name(art), "", "payload.json">>

path_for(art) == <<cache_dir, type_name(art), identity(art), "payload.json">>

parent(path) == SubSeq(path, 1, 3)

Locations == {path_for(a) : a \in Universe}

\* a materialize that never takes the cache-hit path
exists_never(art) == FALSE

\* an executor that trusts only the payloads produced since render_local began
exists_this_pass(art) == files[path_for(art)] # <<>> /\ invoked[art] > pass0.invoked[art]

exists(art) == files[path_for(art)] # <<>>

Frame(art) == [art |-> art, pc |-> "check", todo |-> <<>>]

Top == stack[Len(stack)]

\* a frame that stays on the stack when its call ends
PopNothing == stack

Pop == SubSeq(stack, 1, Len(stack) - 1)

NoEvent == [kind |-> "none", art |-> <<>>]

Event(kind, art) == [kind |-> kind, art |-> <<art>>]

RuntimeError(art) == [type |-> "RuntimeError", at |-> art]
\* a get_producer that reports the miss as a RuntimeError
KeyErrorAsRuntimeError(art) == [type |-> "RuntimeError", at |-> art]

\* get_producer, lines 22-23: "No producer registered for artifact type"
KeyError(art) == [type |-> "KeyError", at |-> art]
ProducerError(art) == [type |-> "ProducerError", at |-> art]

\* the interpreter's limit on nested calls, counted in materialize frames
MaxDepth == 5

\* what the interpreter raises in the call that would exceed the limit
RecursionError(art) == [type |-> "RecursionError", at |-> art]

\* a frame returns `path`: the caller is the producer below it, or the outermost caller
Return(art) ==
    /\ stack' = Pop
    /\ completed' = completed \cup {art}
    /\ ret' = IF Len(stack) = 1 THEN <<[kind |-> "ok", v |-> path_for(art)]>> ELSE ret

\* a frame raises `err`; the frame stays on the stack until Unwind pops it
Raise(err) ==
    /\ exc' = <<err>>
    /\ raised' = <<err>>

Bump(f, art) == [f EXCEPT ![art] = @ + 1]

\* get_producer hoisted above the existence check
LookupsFirst(art) == Bump(lookups, art)

\* get_producer is reached only past the existence check (lines 21-25)
LookupsAfter(art) == IF exists(art) THEN lookups ELSE Bump(lookups, art)

\* materialize, lines 20-28: the existence check, mkdir, the producer lookup and
\* the invocation of the producer
MaterializeCheck ==
    /\ stack # <<>> /\ exc = <<>> /\ Top.pc = "check"
    /\ LET art == Top.art IN
       /\ lookups' = LookupsAfter(art)
       /\ IF exists(art)
          THEN /\ Return(art)
               /\ event' = Event("hit", art)
               /\ UNCHANGED <<dirs, exc, invoked, raised>>
          ELSE /\ dirs' = dirs \cup {parent(path_for(art))}
               /\ IF HasProducer(type_name(art))
                  THEN /\ invoked' = Bump(invoked, art)
                       /\ stack' = [stack EXCEPT ![Len(stack)] =
                                       [art |-> art, pc |-> "produce", todo |-> Needs(art)]]
                       /\ event' = Event("invoke", art)
                       /\ UNCHANGED <<exc, raised>>
                  ELSE /\ Raise(KeyError(art))
                       /\ event' = Event("noproducer", art)
                       /\ UNCHANGED <<invoked, stack>>
               /\ UNCHANGED <<ret, completed>>
    /\ UNCHANGED <<files, failed, interrupted, target, invoked0, violations, calls, renderVars,
                   regVars, threadVars, buildVars, passVars>>

\* a need that hands out the location without materializing the artifact
ProducerNeedPathOnly ==
    /\ stack # <<>> /\ exc = <<>> /\ Top.pc = "produce" /\ Top.todo # <<>>
    /\ stack' = [stack EXCEPT ![Len(stack)].todo = Tail(@)]
    /\ event' = Event("need", Head(Top.todo))
    /\ UNCHANGED <<files, dirs, exc, ret, calls, invoked, lookups, failed, interrupted,
                   completed, target, invoked0, raised, violations>>
    /\ UNCHANGED <<renderVars, regVars, threadVars, buildVars, passVars>>

\* a producer body calls deps.need(art): materialize re-entered on the same executor
ProducerNeed ==
    /\ stack # <<>> /\ exc = <<>> /\ Top.pc = "produce" /\ Top.todo # <<>>
    /\ Len(stack) < MaxDepth
    /\ stack' = Append([stack EXCEPT ![Len(stack)].todo = Tail(@)], Frame(Head(Top.todo)))
    /\ event' = Event("need", Head(Top.todo))
    /\ UNCHANGED <<files, dirs, exc, ret, calls, invoked, lookups, failed, interrupted,
                   completed, target, invoked0, raised, violations>>
    /\ UNCHANGED <<renderVars, regVars, threadVars, buildVars, passVars>>

\* a producer body calls deps.need(art) at the interpreter's limit of nested
\* calls: the call raises instead of entering materialize
NeedOverflow ==
    /\ stack # <<>> /\ exc = <<>> /\ Top.pc = "produce" /\ Top.todo # <<>>
    /\ Len(stack) >= MaxDepth
    /\ Raise(RecursionError(Head(Top.todo)))
    /\ event' = Event("overflow", Head(Top.todo))
    /\ UNCHANGED <<files, dirs, stack, ret, calls, invoked, lookups, failed, interrupted,
                   completed, target, invoked0, violations>>
    /\ UNCHANGED <<renderVars, regVars, threadVars, buildVars, passVars>>

\* what the producer body does to the cache when it ends with outcome o
Produce(art, o) ==
    IF o = "write" THEN [files EXCEPT ![path_for(art)] = <<invoked[art]>>] ELSE files

\* a materialize that trusts the producer and skips the check of line 30
PostCheckSkipped(art, f) == TRUE

\* out.exists() after the producer has returned (line 30), on the cache f
PostCheck(art, f) == f[path_for(art)] # <<>>

\* the producer body ends (it has made all its need calls), then materialize, lines 30-34
ProducerFinish ==
    /\ stack # <<>> /\ exc = <<>> /\ Top.pc = "produce" /\ Top.todo = <<>>
    /\ \E o \in Outcomes :
         LET art == Top.art IN
         /\ files' = Produce(art, o)
         /\ event' = Event(o, art)
         /\ violations' = IF o = "nowrite" THEN violations \cup {<<art, invoked[art]>>}
                          ELSE violations
         /\ IF o = "raise"
            THEN /\ Raise(ProducerError(art))
                 /\ UNCHANGED <<stack, ret, completed>>
            ELSE IF ~PostCheck(art, files')
            THEN /\ Raise(RuntimeError(art))
                 /\ UNCHANGED <<stack, ret, completed>>
            ELSE /\ Return(art)
                 /\ UNCHANGED <<exc, raised>>
    /\ UNCHANGED <<dirs, calls, invoked, lookups, failed, interrupted, target, invoked0>>
    /\ UNCHANGED <<renderVars, regVars, threadVars, buildVars, passVars>>

\* a materialize that catches what the producer raised and raises its own RuntimeError
UnwindWrapped ==
    /\ stack # <<>> /\ exc # <<>>
    /\ stack' = Pop
    /\ interrupted' = IF Top.pc = "produce" THEN interrupted \cup {Top.art} ELSE interrupted
    /\ failed' = IF Top.pc = "produce" THEN Bump(failed, Top.art) ELSE failed
    /\ IF Len(stack) = 1
       THEN /\ ret' = <<[kind |-> "err", v |-> RuntimeError(Top.art)]>>
            /\ exc' = <<>>
       ELSE /\ exc' = <<RuntimeError(Top.art)>>
            /\ UNCHANGED ret
    /\ event' = Event("unwind", Top.art)
    /\ UNCHANGED <<files, dirs, calls, invoked, lookups, completed, target, invoked0,
                   raised, violations>>
    /\ UNCHANGED <<renderVars, regVars, threadVars, buildVars, passVars>>

\* the exception in flight leaves the innermost frame: neither need (deps.py)
\* nor materialize nor the producer bodies catch it
Unwind ==
    /\ stack # <<>> /\ exc # <<>>
    /\ stack' = Pop
    /\ interrupted' = IF Top.pc = "produce" THEN interrupted \cup {Top.art} ELSE interrupted
    /\ failed' = IF Top.pc = "produce" THEN Bump(failed, Top.art) ELSE failed
    /\ IF Len(stack) = 1
       THEN /\ ret' = <<[kind |-> "err", v |-> exc[1]]>>
            /\ exc' = <<>>
       ELSE UNCHANGED <<ret, exc>>
    /\ event' = Event("unwind", Top.art)
    /\ UNCHANGED <<files, dirs, calls, invoked, lookups, completed, target, invoked0,
                   raised, violations>>
    /\ UNCHANGED <<renderVars, regVars, threadVars, buildVars, passVars>>

\* the outermost caller enters materialize(art)
Enter(art) ==
    /\ stack' = <<Frame(art)>>
    /\ ret' = <<>>
    /\ target' = <<art>>
    /\ invoked0' = invoked
    /\ raised' = <<>>
    /\ interrupted' = {}
    /\ completed' = {}
    /\ event' = Event("call", art)
    /\ UNCHANGED <<files, dirs, exc, invoked, lookups, failed, violations>>

\* a direct call of Executor.materialize
Call ==
    /\ stack = <<>> /\ exc = <<>> /\ calls < MaxCalls
    /\ \E art \in Universe : Enter(art)
    /\ calls' = calls + 1
    /\ UNCHANGED <<renderVars, regVars, threadVars, buildVars, passVars>>

-----------------------------------------------------------------------------
(* Two threads on one Executor *)

\* what a thread holds of a materialize call: its frames, the exception in
\* flight, what it got back, and the history of its outermost call
Context ==
    [stack |-> stack, exc |-> exc, ret |-> ret, target |-> target, raised |-> raised,
     interrupted |-> interrupted, completed |-> completed, invoked0 |-> invoked0]

\* a thread that has not called materialize
IdleContext ==
    [stack |-> <<>>, exc |-> <<>>, ret |-> <<>>, target |-> <<>>, raised |-> <<>>,
     interrupted |-> {}, completed |-> {}, invoked0 |-> [a \in Universe |-> 0]]

\* the interpreter takes the running thread off and puts the other one on; the
\* cache root, the registries and the counters are shared
Switch ==
    /\ parked' = Context
    /\ stack' = parked.stack
    /\ exc' = parked.exc
    /\ ret' = parked.ret
    /\ target' = parked.target
    /\ raised' = parked.raised
    /\ interrupted' = parked.interrupted
    /\ completed' = parked.completed
    /\ invoked0' = parked.invoked0
    /\ overlapped' = (overlapped \/ (stack # <<>> /\ parked.stack # <<>>))
    /\ event' = [kind |-> "switch", art |-> <<>>]
    /\ UNCHANGED <<files, dirs, calls, invoked, lookups, failed, violations, renderVars,
                   regVars, buildVars, passVars>>

\* the running thread calls Executor.materialize, once
ThreadCall ==
    /\ stack = <<>> /\ exc = <<>> /\ target = <<>>
    /\ \E art \in Universe : Enter(art)
    /\ calls' = calls + 1
    /\ UNCHANGED <<renderVars, regVars, threadVars, buildVars, passVars>>

-----------------------------------------------------------------------------
(* Workflow steps (workflow/model.py) and their parameter values *)

MaxEdges == 3

\* a parameter name is its sequence of tokens: "fileset_ref" is <<"fileset", "_ref">>
Name(base) == <<base>>
RefName(base) == <<base, "_ref">>

endswith_ref(key) == key # <<>> /\ key[Len(key)] = "_ref"

\* key[:-4]
strip_ref(key) == SubSeq(key, 1, Len(key) - 1)

\* parameter values: a string, a dict, an artifact
Str(s) == [kind |-> "str", v |-> s]
Dict(d) == [kind |-> "dict", v |-> d]
Art(a) == [kind |-> "art", v |-> a]

Put(f, k, v) == [x \in DOMAIN f \cup {k} |-> IF x = k THEN v ELSE f[x]]

EmptyMap == [x \in {} |-> x]

\* a dict literal: the mapping of an ordered sequence of <<key, value>> items
RECURSIVE MapOf(_)
MapOf(items) ==
    IF items = <<>> THEN EmptyMap
    ELSE LET n == Len(items) IN Put(MapOf(SubSeq(items, 1, n - 1)), items[n][1], items[n][2])

Step(name, step_type, params) == [name |-> name, step_type |-> step_type, params |-> params]

\* the structural reference of test_run.py: {"type": "Fileset", "key": {...}}
FilesetRef(dataset) ==
    Dict([type |-> "Fileset",
          key |-> MapOf(<< <<Name("dataset"), Str(dataset)>>, <<Name("era"), Str("2018")>> >>)])

step_fileset ==
    Step("fileset", "Fileset",
         << <<Name("dataset"), Str("TTbar")>>, <<Name("era"), Str("2018")>> >>)

\* a second step under the name "fileset"
step_fileset_data ==
    Step("fileset", "Fileset",
         << <<Name("dataset"), Str("Data")>>, <<Name("era"), Str("2018")>> >>)

step_merge ==
    Step("merge", "MergedResult",
         << <<RefName("fileset"), Str("fileset")>>, <<Name("tag"), Str("demo")>> >>)

step_plots ==
    Step("plots", "Plots",
         << <<RefName("fileset"), FilesetRef("TTbar")>>, <<Name("tag"), Str("demo")>> >>)

\* a step whose parameters "fileset_ref" and "fileset" both resolve to key "fileset"
step_merge_both ==
    Step("merge", "MergedResult",
         << <<RefName("fileset"), Str("fileset")>>, <<Name("fileset"), FilesetRef("Data")>>,
            <<Name("tag"), Str("demo")>> >>)

\* a step whose "fileset" parameter is the to_dict() of a Fileset
step_merge_to_dict ==
    Step("merge", "MergedResult",
         << <<Name("fileset"), Dict(to_dict(Fileset("TTbar", "2018")))>>,
            <<Name("tag"), Str("demo")>> >>)

StepLists ==
    { <<>>,
      <<step_merge_to_dict>>,
      <<step_fileset, step_merge>>,
      <<step_merge, step_fileset>>,
      <<step_fileset, step_merge_both>>,
      <<step_fileset, step_merge, step_plots>>,
      <<step_fileset, step_fileset_data, step_merge>>,
      <<step_fileset_data, step_plots, step_fileset, step_merge>> }

\* Workflow(steps=sl): the edges list starts empty
Workflow(sl) == [steps |-> sl, edges |-> <<>>]

-----------------------------------------------------------------------------
(* Workflow.add (workflow/model.py) *)

MaxSteps == 3

\* the steps handed to Workflow.add
BuildSteps == {step_fileset, step_fileset_data, step_merge}

\* the depends_on arguments handed to Workflow.add
DepLists ==
    {<<>>} \cup {<<d>> : d \in BuildSteps} \cup {<<step_fileset, step_merge>>}

\* self.steps.index(d): the place of the first step equal to d, from 0
index(steps, d) ==
    (CHOOSE k \in 1..Len(steps) : steps[k] = d /\ \A m \in 1..(k - 1) : steps[m] # d) - 1

\* list.index(d) when no step is equal to d
NotInList == [type |-> "ValueError", at |-> "is not in list"]

\* the steps among which add looks its dependencies up: the step is on the
\* list already (line 20 runs before line 22)
StepsLookedUp(wf, step) == Append(wf.steps, step)

\* Workflow.add(step, depends_on), lines 19-25
Add ==
    /\ rpc = "idle" /\ passes = 0 /\ Len(workflow.steps) < MaxSteps
    /\ \E step \in BuildSteps, depends_on \in DepLists :
         LET steps == Append(workflow.steps, step)
             step_idx == Len(steps) - 1
             known == StepsLookedUp(workflow, step)
         IN IF \E k \in 1..Len(depends_on) : \A m \in 1..Len(known) : known[m] # depends_on[k]
            THEN /\ workflow' = [workflow EXCEPT !.steps = steps]
                 /\ add_err' = <<NotInList>>
                 /\ add_failed' = TRUE
            ELSE /\ workflow' =
                      [steps |-> steps,
                       edges |-> workflow.edges \o
                                    [k \in 1..Len(depends_on) |->
                                        <<index(known, depends_on[k]), step_idx>>]]
                 /\ add_err' = <<>>
                 /\ UNCHANGED add_failed
    /\ before_add' = <<workflow>>
    /\ UNCHANGED <<rpc, order, pos, artifacts_by_name, paths_by_name, result, rerr, started,
                   finished, step_art, step_params, pass0, execVars, regVars, threadVars,
                   passVars>>

-----------------------------------------------------------------------------
(* Artifact registry (artifacts.py) *)

\* a class: its __name__ and the module that defines it
Class(name, module) == [name |-> name, module |-> module]

\* ARTIFACT_REGISTRY after artifacts.py has been imported
DEFAULT_REGISTRY == [n \in Types |-> Class(n, "artifacts")]

ValueError(msg) == [type |-> "ValueError", at |-> msg]
TypeError(msg) == [type |-> "TypeError", at |-> msg]
AttributeError(msg) == [type |-> "AttributeError", at |-> msg]

Ok(v) == [err |-> <<>>, v |-> <<v>>]
Err(e) == [err |-> <<e>>, v |-> <<>>]

FieldNames(cls) ==
    IF cls = "Fileset" THEN {Name("dataset"), Name("era")} ELSE {Name("fileset"), Name("tag")}

\* cls(**kwargs): the dataclass constructor takes exactly its fields, and checks no type
Construct(cls, kwargs) ==
    IF DOMAIN kwargs # FieldNames(cls) THEN Err(TypeError(cls))
    ELSE IF cls = "Fileset"
    THEN Ok([cls |-> cls, dataset |-> kwargs[Name("dataset")].v, era |-> kwargs[Name("era")].v])
    ELSE Ok([cls |-> cls, fileset |-> kwargs[Name("fileset")], tag |-> kwargs[Name("tag")].v])

\* d["key"] on a dict without that entry
MissingKey(k) == [type |-> "KeyError", at |-> k]

artifact_from_dict(d) ==
    IF d.type \notin DOMAIN ARTIFACT_REGISTRY THEN Err(ValueError("Unknown artifact type"))
    ELSE IF "key" \notin DOMAIN d THEN Err(MissingKey("key"))
    ELSE Construct(d.type, d.key)

-----------------------------------------------------------------------------
(* The local renderer (workflow/renderers/render_local.py) *)

\* an edge read the other way round: `for dst, src in edges`
EdgeSwapped(e) == [src |-> e[2], dst |-> e[1]]

\* for src, dst in edges
Edge(e) == [src |-> e[1], dst |-> e[2]]

\* outgoing[i]: the dst of the edges leaving i, in edge order
RECURSIVE outgoing(_, _)
outgoing(edges, i) ==
    IF edges = <<>> THEN <<>>
    ELSE IF Edge(Head(edges)).src = i
         THEN <<Edge(Head(edges)).dst>> \o outgoing(Tail(edges), i)
         ELSE outgoing(Tail(edges), i)

InDeg(n, edges) ==
    [i \in 0..(n - 1) |-> Cardinality({k \in 1..Len(edges) : Edge(edges[k]).dst = i})]

\* [i for i in range(num_steps) if in_deg[i] == 0]
RECURSIVE ZeroInDeg(_, _, _)
ZeroInDeg(i, n, in_deg) ==
    IF i >= n THEN <<>>
    ELSE IF in_deg[i] = 0 THEN <<i>> \o ZeroInDeg(i + 1, n, in_deg)
         ELSE ZeroInDeg(i + 1, n, in_deg)

\* queue.pop() in place of queue.pop(0)
QueuePopLast(queue) ==
    [idx |-> queue[Len(queue)], rest |-> SubSeq(queue, 1, Len(queue) - 1)]

\* idx = queue.pop(0)
QueuePop(queue) == [idx |-> Head(queue), rest |-> Tail(queue)]

\* the for loop over outgoing[idx]: [in_deg, queue] after it
RECURSIVE Relax(_, _, _)
Relax(out, in_deg, queue) ==
    IF out = <<>> THEN [in_deg |-> in_deg, queue |-> queue]
    ELSE LET nxt == Head(out)
             d == [in_deg EXCEPT ![nxt] = @ - 1]
         IN Relax(Tail(out), d, IF d[nxt] = 0 THEN Append(queue, nxt) ELSE queue)

\* the while loop: the order when the queue has run empty
RECURSIVE Kahn(_, _, _, _)
Kahn(edges, in_deg, queue, ord) ==
    IF queue = <<>> THEN ord
    ELSE LET p == QueuePop(queue)
             r == Relax(outgoing(edges, p.idx), in_deg, p.rest)
         IN Kahn(edges, r.in_deg, r.queue, Append(ord, p.idx))

CycleError == ValueError("Workflow has a cycle or disconnected dependency graph")

\* a _topo_order without its length check
CompleteAlways(ord, n) == TRUE

\* whether the length check at the end of _topo_order lets the order through
Complete(ord, n) == Len(ord) = n

topo_order(n, edges) ==
    LET in_deg == InDeg(n, edges)
        ord == Kahn(edges, in_deg, ZeroInDeg(0, n, in_deg), <<>>)
    IN IF Complete(ord, n) THEN Ok(ord) ELSE Err(CycleError)

\* isinstance(value, dict) and "type" in value and ("key" in value or "keys" in value)
IsStructRef(value) ==
    /\ value.kind = "dict"
    /\ "type" \in DOMAIN value.v
    /\ ("key" \in DOMAIN value.v \/ "keys" \in DOMAIN value.v)

\* a _resolve_params that keeps every parameter under its own name
target_key_same(key) == key

\* the key under which _resolve_params stores the parameter `key`
target_key(key) == IF endswith_ref(key) THEN strip_ref(key) ELSE key

\* a pass-through that loses the value
PassThroughNone(value) == [kind |-> "str", v |-> "None"]

\* resolved[target_key] = value
PassThrough(value) == value

\* a step reference that resolves to an artifact made up on the spot
LookupFresh(by_name, name) == [kind |-> "art", v |-> Fileset("Data", "2018")]

\* what a step reference resolves to
Lookup(by_name, name) == Art(by_name[name])

\* the loop of _resolve_params from item i on
RECURSIVE resolve_from(_, _, _, _)
resolve_from(raw_params, by_name, i, resolved) ==
    IF i > Len(raw_params) THEN Ok(resolved)
    ELSE LET key == raw_params[i][1]
             value == raw_params[i][2]
         IN IF IsStructRef(value)
            THEN LET a == artifact_from_dict(value.v)
                 IN IF a.err # <<>> THEN Err(a.err[1])
                    ELSE resolve_from(raw_params, by_name, i + 1,
                                      Put(resolved, target_key(key), Art(a.v[1])))
            ELSE IF endswith_ref(key) /\ value.kind = "str" /\ value.v \in DOMAIN by_name
            THEN resolve_from(raw_params, by_name, i + 1,
                              Put(resolved, target_key(key), Lookup(by_name, value.v)))
            ELSE resolve_from(raw_params, by_name, i + 1,
                              Put(resolved, target_key(key), PassThrough(value)))

resolve_params(raw_params, by_name) == resolve_from(raw_params, by_name, 1, EmptyMap)

\* step.step_type(**params), then artifact.keys() for the log line
MakeArtifact(step, params) ==
    LET c == Construct(step.step_type, params)
    IN IF c.err # <<>> THEN c
       ELSE IF step.step_type # "Fileset" /\ c.v[1].fileset.kind # "art"
       THEN Err(AttributeError(step.name))
       ELSE IF step.step_type = "Fileset" THEN c
       ELSE Ok([c.v[1] EXCEPT !.fileset = @.v])

num_steps == Len(workflow.steps)

\* the caller puts the edge (src, dst) on the workflow's edges list
EdgeAppend ==
    /\ rpc = "idle" /\ passes = 0 /\ Len(workflow.edges) < MaxEdges
    /\ \E src \in 0..(num_steps - 1), dst \in 0..(num_steps - 1) :
         workflow' = [workflow EXCEPT !.edges = Append(@, <<src, dst>>)]
    /\ UNCHANGED <<rpc, order, pos, artifacts_by_name, paths_by_name, result, rerr, started,
                   finished, step_art, step_params, pass0, execVars, regVars, threadVars, buildVars, passVars>>

\* the step of index idx (0-based)
StepAt(idx) == workflow.steps[idx + 1]

NamesOf(ord) == [k \in 1..Len(ord) |-> StepAt(ord[k]).name]

\* a return value without its "order" entry
EmptyResultNoOrder == [paths |-> EmptyMap, artifacts |-> EmptyMap]

\* {"paths": {}, "artifacts": {}, "order": []} of line 80
EmptyResult == [paths |-> EmptyMap, artifacts |-> EmptyMap, order |-> <<>>]

\* render_local, lines 75-85
RenderStart ==
    /\ rpc = "idle"
    /\ pass0' = [files |-> files, dirs |-> dirs, invoked |-> invoked]
    /\ IF num_steps = 0
       THEN /\ rpc' = "done"
            /\ result' = <<EmptyResult>>
            /\ UNCHANGED <<order, rerr>>
       ELSE LET t == topo_order(num_steps, workflow.edges)
            IN IF t.err # <<>>
               THEN /\ rpc' = "failed"
                    /\ rerr' = t.err
                    /\ UNCHANGED <<order, result>>
               ELSE /\ rpc' = "loop"
                    /\ order' = t.v[1]
                    /\ UNCHANGED <<result, rerr>>
    /\ UNCHANGED <<workflow, pos, artifacts_by_name, paths_by_name, started, finished,
                   step_art, step_params, execVars, regVars, threadVars, buildVars, passVars>>

\* one loop iteration up to the call of executor.materialize, lines 88-95
RenderStep ==
    /\ rpc = "loop"
    /\ LET idx == order[pos]
           step == StepAt(idx)
           params == resolve_params(step.params, artifacts_by_name)
           made == IF params.err # <<>> THEN params ELSE MakeArtifact(step, params.v[1])
       IN IF made.err # <<>>
          THEN /\ rpc' = "failed"
               /\ rerr' = made.err
               /\ step_params' = IF params.err # <<>> THEN step_params
                                 ELSE Put(step_params, idx, params.v[1])
               /\ UNCHANGED <<started, step_art, execVars>>
          ELSE /\ rpc' = "wait"
               /\ Enter(made.v[1])
               /\ started' = started \cup {idx}
               /\ step_art' = Put(step_art, idx, made.v[1])
               /\ step_params' = Put(step_params, idx, params.v[1])
               /\ UNCHANGED <<rerr, calls>>
    /\ UNCHANGED <<workflow, order, pos, artifacts_by_name, paths_by_name, result, finished,
                   pass0, regVars, threadVars, buildVars, passVars>>

\* a loop that swallows what materialize raised and goes on to the next step
RenderRecordSkipFailed ==
    /\ rpc = "wait" /\ ret # <<>>
    /\ LET idx == order[pos]
           step == StepAt(idx)
       IN /\ IF ret[1].kind = "err"
             THEN UNCHANGED <<artifacts_by_name, paths_by_name, finished>>
             ELSE /\ artifacts_by_name' = Put(artifacts_by_name, step.name, step_art[idx])
                  /\ paths_by_name' = Put(paths_by_name, step.name, ret[1].v)
                  /\ finished' = finished \cup {idx}
          /\ IF pos = Len(order)
             THEN /\ rpc' = "done"
                  /\ result' = <<[paths |-> paths_by_name', artifacts |-> artifacts_by_name',
                                  order |-> NamesOf(order)]>>
                  /\ pos' = pos
             ELSE /\ rpc' = "loop"
                  /\ pos' = pos + 1
                  /\ UNCHANGED result
          /\ UNCHANGED rerr
    /\ UNCHANGED <<workflow, order, started, step_art, step_params, pass0, execVars, regVars,
                   threadVars, buildVars, passVars>>

\* what the loop does with the outcome of materialize, lines 95-100
RenderRecord ==
    /\ rpc = "wait" /\ ret # <<>>
    /\ LET idx == order[pos]
           step == StepAt(idx)
       IN IF ret[1].kind = "err"
          THEN /\ rpc' = "failed"
               /\ rerr' = <<ret[1].v>>
               /\ UNCHANGED <<artifacts_by_name, paths_by_name, finished, pos, result>>
          ELSE /\ artifacts_by_name' = Put(artifacts_by_name, step.name, step_art[idx])
               /\ paths_by_name' = Put(paths_by_name, step.name, ret[1].v)
               /\ finished' = finished \cup {idx}
               /\ IF pos = Len(order)
                  THEN /\ rpc' = "done"
                       /\ result' = <<[paths |-> paths_by_name', artifacts |-> artifacts_by_name',
                                       order |-> NamesOf(order)]>>
                       /\ pos' = pos
                  ELSE /\ rpc' = "loop"
                       /\ pos' = pos + 1
                       /\ UNCHANGED result
               /\ UNCHANGED rerr
    /\ UNCHANGED <<workflow, order, started, step_art, step_params, pass0, execVars, regVars,
                   threadVars, buildVars, passVars>>

MaxPasses == 1

\* render_local is called again on the same workflow and the same cache_dir,
\* after a pass that returned: new locals and a new Executor (lines 75-76, 83-85)
RenderAgain ==
    /\ rpc = "done" /\ passes < MaxPasses
    /\ passes' = passes + 1
    /\ first_result' = IF passes = 0 THEN result ELSE first_result
    /\ rpc' = "idle"
    /\ order' = <<>>
    /\ pos' = 1
    /\ artifacts_by_name' = EmptyMap
    /\ paths_by_name' = EmptyMap
    /\ result' = <<>>
    /\ started' = {}
    /\ finished' = {}
    /\ step_art' = EmptyMap
    /\ step_params' = EmptyMap
    /\ UNCHANGED <<workflow, rerr, pass0, execVars, regVars, threadVars, buildVars>>

-----------------------------------------------------------------------------
(* Registrations (producers.py, artifacts.py) *)

MaxRegs == 2

\* the functions a caller decorates with @producer(t): those of
\* default_producers.py, and for Fileset a function of the caller's own
ProducerFns(t) ==
    IF t = "Fileset" THEN {DEFAULT_PRODUCERS[t], custom_producer} ELSE {DEFAULT_PRODUCERS[t]}

\* the classes a caller decorates with @register_artifact: those of artifacts.py,
\* and a class of the caller's own that is also named Fileset
Classes == {Class(n, "artifacts") : n \in Types} \cup {Class("Fileset", "user")}

\* the structural references handed to artifact_from_dict
RefDicts ==
    {FilesetRef(d).v : d \in Datasets}
    \cup {[type |-> "Unknown", key |-> EmptyMap]}
    \cup {to_dict(a) : a \in Universe}

\* @producer(return_type) applied to fn: deco, lines 14-16
RegisterProducer ==
    /\ stack = <<>> /\ exc = <<>> /\ regs < MaxRegs
    /\ \E return_type \in Types :
         \E fn \in ProducerFns(return_type) :
            /\ _PRODUCERS' = Put(_PRODUCERS, return_type, fn)
            /\ first_producer' = IF return_type \in DOMAIN first_producer THEN first_producer
                                 ELSE Put(first_producer, return_type, fn)
    /\ regs' = regs + 1
    /\ UNCHANGED <<ARTIFACT_REGISTRY, built, hashed, execVars,
                   renderVars, threadVars, buildVars, passVars>>

\* @register_artifact applied to cls: lines 8-10
RegisterArtifact ==
    /\ stack = <<>> /\ exc = <<>> /\ regs < MaxRegs
    /\ \E cls \in Classes : ARTIFACT_REGISTRY' = Put(ARTIFACT_REGISTRY, cls.name, cls)
    /\ regs' = regs + 1
    /\ UNCHANGED <<_PRODUCERS, first_producer, built, hashed, execVars,
                   renderVars, threadVars, buildVars, passVars>>

\* a call of artifact_from_dict(d): the class that was looked up and what it made
FromDict ==
    /\ stack = <<>> /\ exc = <<>>
    /\ \E d \in RefDicts :
         built' = <<[d |-> d,
                    cls |-> IF d.type \in DOMAIN ARTIFACT_REGISTRY
                            THEN <<ARTIFACT_REGISTRY[d.type]>> ELSE <<>>,
                    r |-> artifact_from_dict(d)]>>
    /\ UNCHANGED <<_PRODUCERS, ARTIFACT_REGISTRY, regs, first_producer, hashed, execVars,
                   renderVars, threadVars, buildVars, passVars>>

-----------------------------------------------------------------------------
(* Calls of hash_identity *)

\* obj with the items of every dict in the opposite order
RECURSIVE Reversed(_)
Reversed(obj) ==
    IF obj.kind = "str" THEN obj
    ELSE JDict([i \in 1..Len(obj.v) |->
                   <<obj.v[Len(obj.v) + 1 - i][1], Reversed(obj.v[Len(obj.v) + 1 - i][2])>>])

\* a call of hash_identity on the to_dict() of an artifact, its dicts listed
\* in the order of the source or in the opposite order
HashIdentity ==
    /\ \E art \in Universe, rev \in BOOLEAN :
         LET obj == IF rev THEN Reversed(to_dict_items(art)) ELSE to_dict_items(art)
             h == [art |-> art, rev |-> rev, digest |-> hash_identity(obj)]
         IN hashed' = IF Len(hashed) < 2 THEN Append(hashed, h) ELSE <<hashed[2], h>>
    /\ UNCHANGED <<_PRODUCERS, ARTIFACT_REGISTRY, regs, first_producer, built, execVars,
                   renderVars, threadVars, buildVars, passVars>>

-----------------------------------------------------------------------------
(* Specifications *)

\* a payload left by an earlier process on the same cache root
ExternalPayload == <<0>>

InitExecVars ==
    /\ files \in [Locations -> {<<>>, ExternalPayload}]
    /\ dirs = {parent(p) : p \in {q \in Locations : files[q] # <<>>}}
    /\ stack = <<>>
    /\ exc = <<>>
    /\ ret = <<>>
    /\ calls = 0
    /\ invoked = [a \in Universe |-> 0]
    /\ lookups = [a \in Universe |-> 0]
    /\ failed = [a \in Universe |-> 0]
    /\ event = NoEvent
    /\ interrupted = {}
    /\ completed = {}
    /\ target = <<>>
    /\ invoked0 = [a \in Universe |-> 0]
    /\ raised = <<>>
    /\ violations = {}
    /\ parked = IdleContext
    /\ overlapped = FALSE
    /\ before_add = <<>>
    /\ add_err = <<>>
    /\ add_failed = FALSE
    /\ passes = 0
    /\ first_result = <<>>

InitRenderVars ==
    /\ rpc = "idle"
    /\ order = <<>>
    /\ pos = 1
    /\ artifacts_by_name = EmptyMap
    /\ paths_by_name = EmptyMap
    /\ result = <<>>
    /\ rerr = <<>>
    /\ started = {}
    /\ finished = {}
    /\ step_art = EmptyMap
    /\ step_params = EmptyMap
    /\ pass0 = [files |-> files, dirs |-> dirs, invoked |-> invoked]

\* the registries once artifacts.py and default_producers.py have been imported
InitRegVars ==
    /\ _PRODUCERS = DEFAULT_PRODUCERS
    /\ ARTIFACT_REGISTRY = DEFAULT_REGISTRY
    /\ regs = 0
    /\ first_producer = DEFAULT_PRODUCERS
    /\ built = <<>>
    /\ hashed = <<>>

\* direct calls of materialize on a cache root that may already hold payloads
InitExec ==
    /\ InitExecVars
    /\ workflow = Workflow(<<>>)
    /\ InitRenderVars
    /\ InitRegVars

\* producers.py has been imported and no producer registered yet; the cache is cold
InitProducers ==
    /\ InitExecVars
    /\ \A p \in Locations : files[p] = <<>>
    /\ workflow = Workflow(<<>>)
    /\ InitRenderVars
    /\ _PRODUCERS = EmptyMap
    /\ ARTIFACT_REGISTRY = DEFAULT_REGISTRY
    /\ regs = 0
    /\ first_producer = EmptyMap
    /\ built = <<>>
    /\ hashed = <<>>

\* artifacts.py is being imported: ARTIFACT_REGISTRY = {} of line 6 has run, no
\* @register_artifact yet
InitArtifacts ==
    /\ InitExecVars
    /\ \A p \in Locations : files[p] = <<>>
    /\ workflow = Workflow(<<>>)
    /\ InitRenderVars
    /\ _PRODUCERS = EmptyMap
    /\ ARTIFACT_REGISTRY = EmptyMap
    /\ regs = 0
    /\ first_producer = EmptyMap
    /\ built = <<>>
    /\ hashed = <<>>

\* render_local on a cold cache, for each workflow
InitRender ==
    /\ InitExecVars
    /\ \A p \in Locations : files[p] = <<>>
    /\ \E sl \in StepLists : workflow = Workflow(sl)
    /\ InitRenderVars
    /\ InitRegVars

NextExec ==
    \/ Call
    \/ MaterializeCheck
    \/ ProducerNeed
    \/ ProducerFinish
    \/ Unwind

SpecExec == InitExec /\ [][NextExec]_vars

\* the interpreter runs a call that has been entered to its end: every step of
\* materialize and of a producer body that can be taken is taken
FairExec ==
    /\ WF_vars(MaterializeCheck)
    /\ WF_vars(ProducerNeed)
    /\ WF_vars(ProducerFinish)
    /\ WF_vars(Unwind)

NextFair ==
    \/ ThreadCall
    \/ MaterializeCheck
    \/ ProducerNeed
    \/ ProducerFinish
    \/ Unwind

\* one call of materialize with the default producers, whose needs are acyclic
\* and whose bodies terminate, on a cache root that may already hold payloads
SpecFair == InitExec /\ [][NextFair]_vars /\ FairExec

NextRender ==
    \/ EdgeAppend
    \/ RenderStart
    \/ RenderStep
    \/ RenderRecord
    \/ MaterializeCheck
    \/ ProducerNeed
    \/ ProducerFinish
    \/ Unwind

SpecRender == InitRender /\ [][NextRender]_vars

\* two threads share an Executor on a cold cache, the default producers registered
InitThreads ==
    /\ InitExecVars
    /\ \A p \in Locations : files[p] = <<>>
    /\ workflow = Workflow(<<>>)
    /\ InitRenderVars
    /\ InitRegVars

NextThreads ==
    \/ ThreadCall
    \/ Switch
    \/ MaterializeCheck
    \/ ProducerNeed
    \/ ProducerFinish
    \/ Unwind

SpecThreads == InitThreads /\ [][NextThreads]_vars

\* an empty Workflow() to which the caller adds steps, then render_local on a
\* cold cache
InitBuild ==
    /\ InitExecVars
    /\ \A p \in Locations : files[p] = <<>>
    /\ workflow = Workflow(<<>>)
    /\ InitRenderVars
    /\ InitRegVars

NextBuild ==
    \/ Add
    \/ RenderStart
    \/ RenderStep
    \/ RenderRecord
    \/ MaterializeCheck
    \/ ProducerNeed
    \/ ProducerFinish
    \/ Unwind

SpecBuild == InitBuild /\ [][NextBuild]_vars

NextPasses ==
    \/ EdgeAppend
    \/ RenderStart
    \/ RenderStep
    \/ RenderRecord
    \/ RenderAgain
    \/ MaterializeCheck
    \/ ProducerNeed
    \/ ProducerFinish
    \/ Unwind

\* render_local on a cold cache, and again after it has returned
SpecPasses == InitRender /\ [][NextPasses]_vars

\* direct calls of materialize after the caller has registered cyclic_producer
\* for Fileset (producers.py, line 16), on a cache root that may hold payloads
InitCycle ==
    /\ InitExecVars
    /\ workflow = Workflow(<<>>)
    /\ InitRenderVars
    /\ _PRODUCERS = [DEFAULT_PRODUCERS EXCEPT !["Fileset"] = cyclic_producer]
    /\ ARTIFACT_REGISTRY = DEFAULT_REGISTRY
    /\ regs = 1
    /\ first_producer = DEFAULT_PRODUCERS
    /\ built = <<>>
    /\ hashed = <<>>

NextCycle ==
    \/ Call
    \/ MaterializeCheck
    \/ ProducerNeed
    \/ NeedOverflow
    \/ ProducerFinish
    \/ Unwind

SpecCycle == InitCycle /\ [][NextCycle]_vars

NextProducers ==
    \/ RegisterProducer
    \/ Call
    \/ MaterializeCheck
    \/ ProducerNeed
    \/ ProducerFinish
    \/ Unwind

SpecProducers == InitProducers /\ [][NextProducers]_vars

\* identity.py on its own: nothing registered, nothing cached
InitIdentity == InitArtifacts

NextIdentity == HashIdentity

SpecIdentity == InitIdentity /\ [][NextIdentity]_vars

NextArtifacts ==
    \/ RegisterArtifact
    \/ FromDict

SpecArtifacts == InitArtifacts /\ [][NextArtifacts]_vars

-----------------------------------------------------------------------------
(* Claims about the executor, under SpecExec *)

Cached(art) == files[path_for(art)] # <<>>

Range(seq) == {seq[k] : k \in 1..Len(seq)}

OkRet(art) == <<[kind |-> "ok", v |-> path_for(art)]>>

Failure == ret # <<>> /\ ret[1].kind = "err"

\* C1 (cache idempotence): a producer is invoked for an artifact at most once more
\* than it has ended without a payload for it, so a producer that writes its output
\* before it returns is invoked at most once per identity; and every materialize
\* that returns, returns the location of its argument, where the payload is.
Thm_C1 ==
    /\ \A a \in Universe : invoked[a] <= failed[a] + 1
    /\ \A a \in Universe : failed[a] = 0 => invoked[a] <= 1
    /\ (ret # <<>> /\ ret[1].kind = "ok") => (ret = OkRet(target[1]) /\ Cached(target[1]))

\* the second materialize of an artifact the first call produced: a hit, one invocation
Wit_C1 ==
    /\ calls = 2 /\ target # <<>>
    /\ ret = OkRet(target[1])
    /\ event = Event("hit", target[1])
    /\ files[path_for(target[1])] = <<1>>
    /\ invoked[target[1]] = 1 /\ failed[target[1]] = 0

\* a step of materialize that finds the payload of its argument in place
HitStep == stack # <<>> /\ exc = <<>> /\ Top.pc = "check" /\ Cached(Top.art)

\* C2 (a cache hit leaves everything unchanged): a materialize that finds the
\* payload returns its location, invokes and looks up no producer and leaves
\* files and directories as they were; no step rewrites a payload that exists.
Thm_C2 ==
    [][ /\ \A p \in Locations : files[p] # <<>> => files'[p] = files[p]
        /\ HitStep => /\ files' = files /\ dirs' = dirs
                      /\ invoked' = invoked /\ lookups' = lookups
                      /\ stack' = Pop
                      /\ (Len(stack) = 1 => ret' = OkRet(Top.art)) ]_vars

\* a hit on a payload that an earlier process left in the cache
Wit_C2 ==
    /\ event.kind = "hit"
    /\ files[path_for(event.art[1])] = <<0>>
    /\ ret = OkRet(event.art[1])

\* a step of materialize that does not find the payload of its argument
MissStep == stack # <<>> /\ exc = <<>> /\ Top.pc = "check" /\ ~Cached(Top.art)

\* C3 (contract violation detection): when a producer returns without a payload,
\* materialize raises the contract-violation RuntimeError and does not return; the
\* location stays empty, and a later materialize of the artifact invokes the
\* producer again.
Thm_C3 ==
    [][ /\ event'.kind = "nowrite" =>
             /\ exc' = <<RuntimeError(event'.art[1])>>
             /\ files'[path_for(event'.art[1])] = <<>>
             /\ stack' = stack /\ ret' = ret
        /\ \A v \in violations :
             /\ files'[path_for(v[1])] # <<v[2]>>
             /\ (MissStep /\ Top.art = v[1]) => invoked'[v[1]] = invoked[v[1]] + 1
        /\ (ret' # <<>> /\ ret'[1].kind = "err" /\ ret'[1].v.type = "RuntimeError")
             => files'[path_for(ret'[1].v.at)] = <<>> ]_vars

\* the producer is invoked again after an invocation of it that violated the contract
Wit_C3 ==
    \E v \in violations : invoked[v[1]] > v[2] /\ event = Event("invoke", v[1])

\* C4 (recursive resolution): a producer writes only when every artifact it needed
\* is in the cache under a location of its own, and once an artifact is in the
\* cache its producer is not invoked again, whoever asks for it.
Thm_C4 ==
    [][ /\ event'.kind = "write" =>
             \A n \in Range(Needs(event'.art[1])) :
                /\ files'[path_for(n)] # <<>>
                /\ path_for(n) # path_for(event'.art[1])
        /\ \A a \in Universe : Cached(a) => invoked'[a] = invoked[a] ]_vars

\* a direct materialize of a fileset that the MergedResult producer pulled in by need
Wit_C4 ==
    /\ calls = 2 /\ target # <<>> /\ target[1].cls = "Fileset"
    /\ event = Event("hit", target[1])
    /\ files[path_for(target[1])] = <<1>>
    /\ files[path_for(MergedResult(target[1], "demo"))] = <<1>>
    /\ invoked[target[1]] = 1

\* C9 (error propagation through need): the exception a producer raises reaches the
\* outermost caller as it was raised; each producer it interrupted was invoked
\* once in the call and has no payload; what completed before is still cached.
Thm_C9 ==
    /\ exc # <<>> => exc = raised
    /\ Failure =>
         /\ <<ret[1].v>> = raised
         /\ \A a \in interrupted : ~Cached(a) /\ invoked[a] = invoked0[a] + 1
         /\ \A a \in completed : Cached(a)

\* Plots needs MergedResult needs Fileset: the fileset is produced, then the
\* MergedResult producer fails, which interrupts the Plots producer too
Wit_C9 ==
    /\ Failure
    /\ Cardinality(interrupted) = 2
    /\ \E a \in completed : invoked[a] = invoked0[a] + 1

-----------------------------------------------------------------------------
(* Claims about render_local, under SpecRender *)

Nodes == 0..(num_steps - 1)

Placed(k) == {order[j] : j \in 1..k}

Preds(i) == {workflow.edges[k][1] : k \in {m \in 1..Len(workflow.edges) : workflow.edges[m][2] = i}}

\* the position in `order` of step i
PosOf(i) == CHOOSE k \in 1..Len(order) : order[k] = i

\* C5 (topological execution): once the order is accepted it lists every step
\* exactly once, as does the returned order of names; and whenever the
\* materialization of a step has begun, that of each of its predecessors has returned.
Thm_C5 ==
    /\ order # <<>> =>
         /\ Len(order) = num_steps
         /\ Placed(Len(order)) = Nodes
    /\ \A k \in 1..Len(workflow.edges) :
         workflow.edges[k][2] \in started => workflow.edges[k][1] \in finished
    /\ rpc = "done" =>
         /\ finished = Nodes
         /\ result # <<>> /\ result[1].order = [k \in 1..num_steps |-> StepAt(order[k]).name]

\* a render that is through, with a step that had to wait for a step added after it
Wit_C5 ==
    /\ rpc = "done" /\ num_steps >= 3
    /\ \E k \in 1..Len(workflow.edges) : workflow.edges[k][1] > workflow.edges[k][2]
    /\ order # [k \in 1..num_steps |-> k - 1]

\* the steps that are not among the first k of the order and whose dependencies are
ReadyAfter(k) == {i \in Nodes \ Placed(k) : Preds(i) \subseteq Placed(k)}

Least(S) == CHOOSE x \in S : \A y \in S : x <= y

\* the edges are such as Workflow.add records for steps added before their dependents
Forward == \A k \in 1..Len(workflow.edges) : workflow.edges[k][1] < workflow.edges[k][2]

\* C6 as claimed: at every point the step placed next is the ready step of least index
Orig_C6 ==
    (order # <<>> /\ Forward) =>
        \A k \in 1..Len(order) : order[k] = Least(ReadyAfter(k - 1))

\* the number of steps placed when step i became ready
ReadyAt(i) == Least({k \in 0..Len(order) : Preds(i) \subseteq Placed(k)})

\* the place in the edges list of the last edge from p to i
LastEdge(p, i) ==
    CHOOSE k \in 1..Len(workflow.edges) :
        /\ workflow.edges[k] = <<p, i>>
        /\ \A m \in 1..Len(workflow.edges) : workflow.edges[m] = <<p, i>> => m <= k

\* C6 (tie-breaking, amended): the order is first-in-first-out in readiness. The
\* steps without dependencies come first, by insertion index; a step that becomes
\* ready later is placed after every step that was ready before it, whatever its
\* index; steps that the same predecessor makes ready follow the order of its edges.
Thm_C6 ==
    order # <<>> =>
        \A j, k \in 1..Len(order) :
            j < k =>
                /\ ReadyAt(order[j]) <= ReadyAt(order[k])
                /\ (ReadyAt(order[j]) = 0 /\ ReadyAt(order[k]) = 0) => order[j] < order[k]
                /\ (ReadyAt(order[j]) = ReadyAt(order[k]) /\ ReadyAt(order[j]) > 0) =>
                      LastEdge(order[ReadyAt(order[j])], order[j])
                          < LastEdge(order[ReadyAt(order[k])], order[k])

\* step 2 has no dependency and is placed before step 1, which waits for step 0
Wit_C6 ==
    /\ workflow.edges = << <<0, 1>> >> /\ num_steps = 3
    /\ order = <<0, 2, 1>>

\* the pairs (a, b) with a path of at least one edge from a to b
RECURSIVE PathsUpTo(_)
PathsUpTo(n) ==
    IF n = 0 THEN {}
    ELSE LET R == PathsUpTo(n - 1)
             E == {<<workflow.edges[k][1], workflow.edges[k][2]>> : k \in 1..Len(workflow.edges)}
         IN E \cup R \cup {<<a, c>> \in Nodes \X Nodes : \E b \in Nodes : <<a, b>> \in R /\ <<b, c>> \in E}

HasCycle == \E a \in Nodes : <<a, a>> \in PathsUpTo(num_steps)

\* C7 (cycle rejection): render_local on a workflow whose edges contain a cycle
\* raises the ValueError of _topo_order; no step has been resolved, no producer
\* invoked and nothing created under the cache root.
Thm_C7 ==
    (rpc # "idle" /\ HasCycle) =>
        /\ rpc = "failed"
        /\ rerr = <<[type |-> "ValueError",
                     at |-> "Workflow has a cycle or disconnected dependency graph"]>>
        /\ result = <<>>
        /\ started = {} /\ stack = <<>> /\ target = <<>>
        /\ files = pass0.files /\ dirs = pass0.dirs /\ invoked = pass0.invoked
        /\ dirs = {}

\* the render of a workflow with the edges 0 -> 1 and 1 -> 0 has failed
Wit_C7 ==
    /\ rpc = "failed"
    /\ workflow.edges = << <<0, 1>>, <<1, 0>> >>

\* C8 (no partial success): when a materialize raises, render_local raises that
\* exception and returns nothing; the steps before the failing one are recorded and
\* their payloads are in the cache, and no step after it is resolved or materialized.
Thm_C8 ==
    /\ (Failure /\ rpc # "wait") => (rpc = "failed" /\ rerr = raised /\ rerr = <<ret[1].v>>)
    /\ (rpc = "failed" /\ order # <<>>) =>
         /\ result = <<>>
         /\ stack = <<>>
         /\ finished = Placed(pos - 1)
         /\ started \subseteq DOMAIN step_params /\ DOMAIN step_params \subseteq Placed(pos)
         /\ \A i \in finished : Cached(step_art[i])

\* a render that failed in a sub-artifact pulled in by need, after a step that
\* succeeded and before a step that is left undone
Wit_C8 ==
    /\ rpc = "failed" /\ Failure
    /\ finished # {} /\ pos < Len(order)
    /\ raised[1].at # target[1]

\* C10 as claimed: when a "<base>_ref" parameter of the step being rendered names
\* a step rendered earlier in the pass, the value stored under "<base>" when the
\* parameter is resolved is the artifact constructed and materialized for that step
Orig_C10 ==
    rpc = "wait" =>
        LET raw == StepAt(order[pos]).params IN
        \A i \in 1..Len(raw) :
            (endswith_ref(raw[i][1]) /\ raw[i][2].kind = "str") =>
                \A j \in finished :
                    StepAt(j).name = raw[i][2].v =>
                        resolve_params(SubSeq(raw, 1, i), artifacts_by_name).v[1][strip_ref(raw[i][1])]
                            = [kind |-> "art", v |-> step_art[j]]

\* the parameters of step idx, as written
RawParams(idx) == StepAt(idx).params

\* a structural reference {type, key}
IsRef(value) == value.kind = "dict" /\ "type" \in DOMAIN value.v /\ "key" \in DOMAIN value.v

\* the Fileset that a structural reference to a Fileset describes
FromRef(d) ==
    [cls |-> d.type, dataset |-> d.key[<<"dataset">>].v, era |-> d.key[<<"era">>].v]

\* the name without a trailing "_ref"
Base(key) == IF key[Len(key)] = "_ref" THEN SubSeq(key, 1, Len(key) - 1) ELSE key

\* no parameter after the i-th is stored under the same key
LastFor(raw, i) == \A j \in (i + 1)..Len(raw) : Base(raw[j][1]) # Base(raw[i][1])

\* the names of the steps rendered before step idx was resolved
RenderedBefore(idx) == {StepAt(order[m]).name : m \in 1..(PosOf(idx) - 1)}

\* C11 as claimed: the artifact of a structural reference is stored under the
\* name of its parameter, for every parameter name
Orig_C11 ==
    \A idx \in DOMAIN step_params :
        \A i \in 1..Len(RawParams(idx)) :
            LET key == RawParams(idx)[i][1]
                value == RawParams(idx)[i][2]
            IN IsRef(value) =>
                  /\ key \in DOMAIN step_params[idx]
                  /\ step_params[idx][key] = [kind |-> "art", v |-> FromRef(value.v)]

\* C11 (structural reference resolution, amended): a parameter whose value is a
\* structural reference {type, key} is replaced by the artifact constructed
\* through the registry; it is stored under the parameter's name with a trailing
\* "_ref" removed (under the same name only when the name does not end in "_ref"),
\* unless a later parameter is stored under that key.
Thm_C11 ==
    \A idx \in DOMAIN step_params :
        \A i \in 1..Len(RawParams(idx)) :
            LET key == RawParams(idx)[i][1]
                value == RawParams(idx)[i][2]
            IN (IsRef(value) /\ LastFor(RawParams(idx), i)) =>
                  /\ Base(key) \in DOMAIN step_params[idx]
                  /\ step_params[idx][Base(key)] = [kind |-> "art", v |-> FromRef(value.v)]

\* the step "plots", whose "fileset_ref" is a structural reference, has been
\* rendered with the referenced Fileset under "fileset"
Wit_C11 ==
    \E idx \in finished :
        /\ StepAt(idx).name = "plots"
        /\ DOMAIN step_params[idx] = {<<"fileset">>, <<"tag">>}
        /\ step_params[idx][<<"fileset">>] = [kind |-> "art", v |-> Fileset("TTbar", "2018")]

\* the i-th parameter of step idx is neither a reference to a rendered step nor
\* a structural reference
Plain(idx, i) ==
    LET key == RawParams(idx)[i][1]
        value == RawParams(idx)[i][2]
    IN /\ ~IsRef(value)
       /\ ~(key[Len(key)] = "_ref" /\ value.kind = "str" /\ value.v \in RenderedBefore(idx))

\* C12 as claimed: every other parameter is in the resolved mapping under its
\* original name with its value
Orig_C12 ==
    \A idx \in DOMAIN step_params :
        \A i \in 1..Len(RawParams(idx)) :
            LET key == RawParams(idx)[i][1]
                value == RawParams(idx)[i][2]
            IN Plain(idx, i) =>
                  /\ key \in DOMAIN step_params[idx]
                  /\ step_params[idx][key] = value

\* C12 (pass-through, amended): every parameter that is neither a "<base>_ref"
\* naming a rendered step nor a structural reference appears in the resolved
\* mapping with its value unchanged, under its original name when that does not
\* end in "_ref" and under the name without "_ref" when it does, unless a later
\* parameter is stored under that key.
Thm_C12 ==
    \A idx \in DOMAIN step_params :
        \A i \in 1..Len(RawParams(idx)) :
            LET key == RawParams(idx)[i][1]
                value == RawParams(idx)[i][2]
            IN (Plain(idx, i) /\ LastFor(RawParams(idx), i)) =>
                  /\ Base(key) \in DOMAIN step_params[idx]
                  /\ step_params[idx][Base(key)] = value

\* the step "merge" resolved before any step "fileset" is rendered: its
\* "fileset_ref" went through as the string, under "fileset"
Wit_C12 ==
    \E idx \in DOMAIN step_params :
        /\ StepAt(idx).name = "merge"
        /\ RenderedBefore(idx) = {}
        /\ DOMAIN step_params[idx] = {<<"fileset">>, <<"tag">>}
        /\ step_params[idx][<<"fileset">>] = [kind |-> "str", v |-> "fileset"]
        /\ step_params[idx][<<"tag">>] = [kind |-> "str", v |-> "demo"]

-----------------------------------------------------------------------------
(* Claims about the registries, under SpecProducers and SpecArtifacts *)

\* C13 as claimed: the producer of each type is the first one registered for it
Orig_C13 ==
    \A t \in DOMAIN first_producer :
        t \in DOMAIN _PRODUCERS /\ _PRODUCERS[t] = first_producer[t]

\* C14 as claimed: no registration changes the class bound to a type name that
\* is already registered
Orig_C14 ==
    [][ \A n \in DOMAIN ARTIFACT_REGISTRY :
            n \in DOMAIN ARTIFACT_REGISTRY' /\ ARTIFACT_REGISTRY'[n] = ARTIFACT_REGISTRY[n] ]_vars

\* C15 as claimed: artifact_from_dict accepts the to_dict() of an artifact whose
\* type is registered and yields an artifact equal to it
Orig_C15 ==
    \A a \in Universe :
        (built # <<>> /\ built[1].cls # <<>> /\ DOMAIN built[1].d = {"type", "keys"}
         /\ built[1].d.type = a.cls /\ built[1].d.keys = keys(a)) =>
            (built[1].r.err = <<>> /\ built[1].r.v = <<a>>)

\* the no-producer-registered error for artifact a
NoProducer(a) == [type |-> "KeyError", at |-> a]

\* C17 (missing producer): a materialize that does not find the payload and
\* finds no producer registered for the type raises the no-producer error,
\* invokes nothing and writes nothing; the error reaches the caller; and as long
\* as no producer has been registered for a type, no producer has been invoked
\* for its artifacts and none of them is in the cache.
Thm_C17 ==
    [][ /\ (MissStep /\ Top.art.cls \notin DOMAIN _PRODUCERS) =>
               /\ exc' = <<NoProducer(Top.art)>>
               /\ invoked' = invoked
               /\ files' = files
        /\ \A a \in Universe :
               a.cls \notin DOMAIN first_producer' =>
                   (invoked'[a] = 0 /\ files'[path_for(a)] = <<>>)
        /\ (ret' # <<>> /\ raised' # <<>> /\ raised'[1].type = "KeyError") =>
               /\ ret' = <<[kind |-> "err", v |-> raised'[1]]>>
               /\ files'[path_for(raised'[1].at)] = <<>> ]_vars

\* the second materialize of an artifact without a producer has failed as the first did
Wit_C17 ==
    /\ calls = 2 /\ target # <<>> /\ _PRODUCERS = EmptyMap
    /\ ret = <<[kind |-> "err", v |-> NoProducer(target[1])]>>
    /\ lookups[target[1]] = 2 /\ invoked[target[1]] = 0
    /\ files[path_for(target[1])] = <<>>
    /\ parent(path_for(target[1])) \in dirs

-----------------------------------------------------------------------------
(* Claims about identity, under SpecIdentity *)

-----------------------------------------------------------------------------
(* Further claims about render_local, under SpecRender *)

\* C20 (empty workflow): render_local on a workflow without steps returns empty
\* paths, artifacts and order, raises nothing, invokes no producer, calls no
\* materialize and leaves the cache root without files or directories.
Thm_C20 ==
    (rpc # "idle" /\ Len(workflow.steps) = 0) =>
        /\ rpc = "done" /\ rerr = <<>>
        /\ result # <<>>
        /\ DOMAIN result[1] = {"paths", "artifacts", "order"}
        /\ DOMAIN result[1].paths = {} /\ DOMAIN result[1].artifacts = {}
        /\ result[1].order = <<>>
        /\ \A a \in Universe : invoked[a] = 0 /\ lookups[a] = 0
        /\ \A p \in Locations : files[p] = <<>>
        /\ dirs = {} /\ target = <<>> /\ started = {}

\* the render of the workflow without steps is through
Wit_C20 == rpc = "done" /\ Len(workflow.steps) = 0 /\ workflow.edges = <<>>

-----------------------------------------------------------------------------
(* Claims about two threads on one Executor, under SpecThreads *)

\* no producer has ended without a payload in either thread's call
NoFailure == raised = <<>> /\ parked.raised = <<>>

\* C18 as claimed: when the two threads materialize the same artifact, its
\* producer is invoked at most once
Orig_C18 ==
    (target # <<>> /\ parked.target # <<>> /\ target = parked.target /\ NoFailure) =>
        invoked[target[1]] <= 1

\* the artifact and everything its producer needs, directly or through needs
NeedSet(a) ==
    CASE a.cls = "Fileset" -> {a}
      [] a.cls = "MergedResult" -> {a, a.fileset}
      [] a.cls = "Plots" -> {a, [cls |-> "MergedResult", fileset |-> a.fileset, tag |-> a.tag],
                             a.fileset}

\* both threads have called materialize, for artifacts that have no need in common
Unrelated ==
    /\ target # <<>> /\ parked.target # <<>>
    /\ NeedSet(target[1]) \cap NeedSet(parked.target[1]) = {}

\* C19 (unrelated-identity concurrency): when the two threads materialize
\* artifacts whose need-sets are disjoint, on a cold cache and with producers
\* that write their output, no producer is invoked twice and none outside the
\* two need-sets is invoked; once both calls have returned, each has returned
\* the location of its own artifact, every producer involved was invoked
\* exactly once and every payload involved exists, as after the two calls made
\* one after the other.
Thm_C19 ==
    (Unrelated /\ NoFailure) =>
        LET involved == NeedSet(target[1]) \cup NeedSet(parked.target[1]) IN
        /\ \A a \in Universe : invoked[a] <= 1
        /\ \A a \in Universe \ involved : invoked[a] = 0 /\ ~Cached(a)
        /\ (ret # <<>> /\ parked.ret # <<>>) =>
              /\ ret = OkRet(target[1])
              /\ parked.ret = OkRet(parked.target[1])
              /\ \A a \in involved : invoked[a] = 1 /\ files[path_for(a)] = <<1>>

\* both calls have returned, a Plots and a MergedResult of different filesets,
\* after the threads were switched while both were inside materialize
Wit_C19 ==
    /\ Unrelated /\ NoFailure /\ overlapped
    /\ ret # <<>> /\ parked.ret # <<>>
    /\ {target[1].cls, parked.target[1].cls} = {"Plots", "MergedResult"}
    /\ \A a \in NeedSet(target[1]) \cup NeedSet(parked.target[1]) : Cached(a)

-----------------------------------------------------------------------------
(* Claims about Workflow.add, under SpecBuild *)

\* C21 as claimed: after add calls that all succeeded, every edge (src, dst)
\* has 0 <= src < dst < number of steps
Orig_C21 ==
    ~add_failed =>
        \A k \in 1..Len(workflow.edges) :
            /\ 0 <= workflow.edges[k][1]
            /\ workflow.edges[k][1] < workflow.edges[k][2]
            /\ workflow.edges[k][2] < Len(workflow.steps)

\* C22 as claimed: after an add that raised, the steps and edges of the
\* workflow are what they were before the call
Orig_C22 ==
    add_err # <<>> => workflow = before_add[1]

\* C24 as claimed: after a successful render of a workflow built by add calls
\* that all succeeded, the returned maps have an entry for every step, and the
\* entry under the name of a step is the artifact constructed for that step and
\* the location its materialization returned
Orig_C24 ==
    (rpc = "done" /\ ~add_failed) =>
        \A idx \in 0..(Len(workflow.steps) - 1) :
              /\ StepAt(idx).name \in DOMAIN result[1].artifacts
              /\ result[1].artifacts[StepAt(idx).name] = step_art[idx]
              /\ result[1].paths[StepAt(idx).name]
                    = <<".cache", step_art[idx].cls, identity(step_art[idx]), "payload.json">>

-----------------------------------------------------------------------------
(* Claims about references and passes of render_local *)

\* C23 (references only look backwards): whenever a "<base>_ref" parameter of
\* a step has been replaced by an artifact, that artifact is the one constructed
\* for a step of the name given which stands strictly earlier in the execution
\* order and whose materialization has returned, with its payload in the cache;
\* a name that no earlier step bears is not replaced by any artifact.
Thm_C23 ==
    \A idx \in DOMAIN step_params :
        \A i \in 1..Len(RawParams(idx)) :
            LET key == RawParams(idx)[i][1]
                value == RawParams(idx)[i][2]
            IN (key[Len(key)] = "_ref" /\ value.kind = "str" /\ LastFor(RawParams(idx), i)) =>
                  IF step_params[idx][Base(key)].kind = "art"
                  THEN \E j \in finished :
                          /\ PosOf(j) < PosOf(idx)
                          /\ StepAt(j).name = value.v
                          /\ step_art[j] = step_params[idx][Base(key)].v
                          /\ Cached(step_art[j])
                  ELSE /\ step_params[idx][Base(key)] = value
                       /\ value.v \notin RenderedBefore(idx)

\* the step "merge" has been given the artifact of a step that was added after
\* it and rendered before it
Wit_C23 ==
    \E idx \in finished, j \in finished :
        /\ j > idx /\ PosOf(j) < PosOf(idx)
        /\ StepAt(idx).name = "merge" /\ StepAt(j).name = "fileset"
        /\ step_params[idx][<<"fileset">>] = [kind |-> "art", v |-> step_art[j]]

\* C27 (render is idempotent across passes): in a pass that follows a pass that
\* succeeded, no producer is invoked, no file or directory of the cache changes,
\* the pass does not fail, and it returns the order and the maps of names to
\* locations and artifacts that the first pass returned.
Thm_C27 ==
    (passes >= 1 /\ rpc # "idle") =>
        /\ invoked = pass0.invoked
        /\ files = pass0.files
        /\ dirs = pass0.dirs
        /\ rpc # "failed" /\ rerr = <<>>
        /\ rpc = "done" =>
              /\ result[1].order = first_result[1].order
              /\ result[1].paths = first_result[1].paths
              /\ result[1].artifacts = first_result[1].artifacts

\* the second pass over a workflow of three steps with a dependency is through,
\* by cache hits alone
Wit_C27 ==
    /\ passes = 1 /\ rpc = "done"
    /\ Len(workflow.steps) = 3 /\ workflow.edges # <<>>
    /\ result = first_result
    /\ event.kind = "hit"
    /\ \A a \in Universe : invoked[a] <= 1

-----------------------------------------------------------------------------
(* Claims about recursion through deps.need *)

\* C25 as claimed: a request for an artifact that is being computed on the call
\* stack ends with an error and does not enter its producer again, so no
\* artifact has two frames on the stack with the producer running in the upper one
Orig_C25 ==
    \A i \in 1..Len(stack), j \in 1..Len(stack) :
        (i < j /\ stack[i].art = stack[j].art) => stack[j].pc # "produce"

\* the call in hand has returned a location
OkRet_C26 == stack = <<>> /\ ret # <<>> /\ ret[1].kind = "ok"

\* the payloads that are to be in the cache after the call in hand
Payloads_C26 ==
    /\ ret = OkRet(target[1])
    /\ Cached(target[1])
    /\ \A a \in completed : Cached(a)
    /\ invoked[target[1]] > invoked0[target[1]] =>
          \A a \in Range(Needs(target[1])) : a \in completed /\ Cached(a)

\* C26 (termination on acyclic needs): with the default producers, whose needs
\* are acyclic, every materialize call that has been entered comes to its end,
\* with a location or with an exception; and whenever a call has returned a
\* location, the payload of the requested artifact, of every artifact whose
\* materialization completed within the call, and (when the producer of the
\* requested artifact ran in the call) of every artifact that producer needed,
\* is in the cache.
Thm_C26 ==
    /\ [](OkRet_C26 => Payloads_C26)
    /\ (stack # <<>>) ~> (stack = <<>> /\ ret # <<>>)

\* materialize(Plots) on a cache without the payloads of its needs has returned
\* its location, after the three producers ran nested in one another
Wit_C26 ==
    /\ stack = <<>> /\ target # <<>> /\ target[1].cls = "Plots"
    /\ ret = OkRet(target[1])
    /\ \A a \in NeedSet(target[1]) : invoked[a] = invoked0[a] + 1 /\ a \in completed /\ Cached(a)

====
